---- MODULE Spec2Model ----
(***************************************************************************)
(* Bounds-check elimination analysis of bf-rs (src/jit/analysis.rs) and    *)
(* the BF tape machine it reasons about (src/state.rs).                    *)
(*                                                                         *)
(* Spec        the AbstractInterpreter: construction (new, with the loop   *)
(*             summarization pass) followed by any sequence of calls of    *)
(*             the BoundsAnalysis trait.                                   *)
(* SpecAnalyze the summarization pass alone, over a larger set of trees.   *)
(* SpecMove    the interpreter and the tape machine moved in lockstep      *)
(*             through straight-line code.                                 *)
(* SpecRun     a code generation walk over a structured program followed   *)
(*             by a concrete execution of the generated code.              *)
(* SpecTape    the tape machine alone, under any sequence of its calls.    *)
(* SpecCell    one cell of the tape, over every byte and every count.      *)
(* SpecLeaf    the summarization pass over one loop of instructions.       *)
(* SpecNest    the summarization pass over one loop that ends in a nested  *)
(*             loop.                                                       *)
(* SpecPass    the summarization pass over one loop followed by a concrete *)
(*             execution of one pass through the body of that loop.        *)
(* SpecLoop    Spec, with the marks before every open loop remembered.     *)
(*                                                                         *)
(* usize and isize values are modelled as unbounded integers; the guards   *)
(* of the actions keep the marks at or below MaxMark.  A memory cell is a  *)
(* u8, with its wrapping arithmetic.                                       *)
(***************************************************************************)
EXTENDS Integers, Sequences, FiniteSets, TLC

(***************************************************************************)
(* Bounds of the model.                                                    *)
(***************************************************************************)
\* Largest count passed to move_left / move_right and carried by an instruction.
MaxCount == 2
\* The guards keep left_mark and right_mark at or below this value.
MaxMark == 3
\* Largest depth of loop_stack explored.
MaxDepth == 2
\* Largest number of statements (instructions and loops, at any depth) of the
\* trees summarized in SpecAnalyze.
MaxNodes == 4
\* Largest memory capacity of the tape machine.
MaxCap == 4
\* Largest number of statements of the programs compiled and run in SpecRun.
MaxRunNodes == 4
\* Loop iterations one execution may start in SpecRun.
MaxIter == 3
\* Cell writes (up, down, store, up_pos_offset, up_neg_offset) of one run of
\* SpecTape.
MaxWrites == 3
\* Largest number of instructions of the loop bodies summarized in SpecLeaf.
MaxBody == 3
\* Largest number of instructions before the nested loop, and in the nested
\* loop, of the loops summarized in SpecNest.
MaxNest == 2
\* Largest number of statements of the loop bodies run in SpecPass.
MaxPassNodes == 3

VARIABLES
    program,        \* the &Program handed to AbstractInterpreter::new
    checked,        \* the flag handed to AbstractInterpreter::new
    pc,             \* "new" before construction, "ready" after, "panicked" after a panic
    left_mark,      \* AbstractInterpreter.left_mark
    right_mark,     \* AbstractInterpreter.right_mark
    loop_stack,     \* AbstractInterpreter.loop_stack
    loop_balances,  \* AbstractInterpreter.loop_balances
    ret,            \* the last call: its name, arguments and return value, and
                    \* what it was made on (the marks, or the State)
    entered,        \* history: the marks each unmatched enter_loop returned with
    before_loop,    \* history (SpecLoop): the marks each unmatched enter_loop was
                    \* called with
    memory,         \* State.memory
    pointer,        \* State.pointer
    cursor,         \* the walk of the program: the path of the statement it is at
    proved,         \* code generation: the proof returned for each move, by path
    pushed,         \* code generation: the marks enter_loop pushed for each loop
    restored,       \* code generation: the marks leave_loop left for each loop
    fuel            \* SpecRun: loop iterations the run may still start;
                    \* SpecTape, SpecCell: calls the run may still make

vars == <<program, checked, pc, left_mark, right_mark, loop_stack, loop_balances,
          ret, entered, before_loop, memory, pointer, cursor, proved, pushed,
          restored, fuel>>

\* What only the code generation walk and the execution (SpecRun) change.
walkvars == <<cursor, proved, pushed, restored, fuel>>

(***************************************************************************)
(* peephole::Statement and common::Instruction, as used by the analysis.   *)
(***************************************************************************)
Instr(op, count) == [kind |-> "Instr", op |-> op, count |-> count, body |-> <<>>]

Loop(body) == [kind |-> "Loop", op |-> "Loop", count |-> 0, body |-> body]

JumpOps == {"JumpZero", "JumpNotZero"}

(***************************************************************************)
(* LoopBalance                                                             *)
(***************************************************************************)
Exact(disp) == [tag |-> "Exact", disp |-> disp]

RightOnly == [tag |-> "RightOnly", disp |-> 0]

LeftOnly == [tag |-> "LeftOnly", disp |-> 0]

Unknown == [tag |-> "Unknown", disp |-> 0]

is_balanced(self) == self = Exact(0)

is_right_only(self) ==
    CASE self.tag = "Exact"     -> self.disp >= 0
      [] self.tag = "RightOnly" -> TRUE
      [] self.tag = "LeftOnly"  -> FALSE
      [] self.tag = "Unknown"   -> FALSE

is_left_only(self) ==
    CASE self.tag = "Exact"     -> self.disp <= 0
      [] self.tag = "RightOnly" -> FALSE
      [] self.tag = "LeftOnly"  -> TRUE
      [] self.tag = "Unknown"   -> FALSE

(***************************************************************************)
(* LoopIndex: the address of a loop body's first statement.  A non-empty   *)
(* body is a heap allocation of its own, told apart here by the path of    *)
(* its Loop node in the tree (the positions leading to it); every empty    *)
(* boxed slice has the same dangling address.                              *)
(***************************************************************************)
DanglingIndex == <<>>

from_loop_body(path, body) == IF Len(body) = 0 THEN DanglingIndex ELSE path

\* HashMap::insert
insert(map, key, value) ==
    [k \in DOMAIN map \cup {key} |-> IF k = key THEN value ELSE map[k]]

EmptyMap == [k \in {} |-> Unknown]

(***************************************************************************)
(* AbstractInterpreter::analyze.  The accumulator of the walk is a record  *)
(* [net, loop_balances, panicked]: the local `net`, the map the walk       *)
(* inserts into, and whether panic! has unwound the walk.                  *)
(***************************************************************************)
\* The Right arm with RightOnly in its wildcard arm.
net_right_wildcard_right_only(net, count) ==
    CASE net.tag = "Exact" -> Exact(net.disp + count)
      [] OTHER             -> RightOnly

\* Instr(Right(count)) => net = match net { ... }
net_right(net, count) ==
    CASE net.tag = "Exact"     -> Exact(net.disp + count)
      [] net.tag = "RightOnly" -> RightOnly
      [] OTHER                 -> Unknown

\* Instr(Left(count)) => net = match net { ... }
net_left(net, count) ==
    CASE net.tag = "Exact"    -> Exact(net.disp - count)
      [] net.tag = "LeftOnly" -> LeftOnly
      [] OTHER                -> Unknown

\* The FindZeroRight arm asking only whether net is Exact or RightOnly.
net_find_zero_right_any(net) ==
    IF net.tag \in {"Exact", "RightOnly"} THEN RightOnly ELSE Unknown

\* Instr(FindZeroRight(_)) => net = if net.is_right_only() { RightOnly } else { Unknown }
net_find_zero_right(net) == IF is_right_only(net) THEN RightOnly ELSE Unknown

\* Instr(FindZeroLeft(_)) => net = if net.is_left_only() { LeftOnly } else { Unknown }
net_find_zero_left(net) == IF is_left_only(net) THEN LeftOnly ELSE Unknown

\* The first arm of the match asking for a balanced accumulator as well.
net_loop_both_balanced(net, body) ==
    IF is_balanced(net) /\ is_balanced(body) THEN Exact(net.disp)
    ELSE IF is_right_only(net) /\ is_right_only(body) THEN RightOnly
    ELSE IF is_left_only(net) /\ is_left_only(body) THEN LeftOnly
    ELSE Unknown

\* Loop(ref body) => ... net = match net { ... }, with `body` the nested summary
net_loop(net, body) ==
    IF net.tag = "Exact" /\ is_balanced(body) THEN Exact(net.disp)
    ELSE IF is_right_only(net) /\ is_right_only(body) THEN RightOnly
    ELSE IF is_left_only(net) /\ is_left_only(body) THEN LeftOnly
    ELSE Unknown

RECURSIVE analyze_from(_, _, _, _)

\* The nested-loop arm without `self.loop_balances.insert(index, body)`.
analyze_loop_no_insert(statement, path, acc) ==
    LET inner == analyze_from(statement.body, path, 1,
                              [net |-> Exact(0),
                               loop_balances |-> acc.loop_balances,
                               panicked |-> FALSE])
    IN  IF inner.panicked
        THEN [acc EXCEPT !.loop_balances = inner.loop_balances, !.panicked = TRUE]
        ELSE [net |-> net_loop(acc.net, inner.net),
              loop_balances |-> inner.loop_balances,
              panicked |-> FALSE]

\* The summary of the nested loop at `path`, recorded in the map before the
\* outer accumulator is combined with it.
analyze_loop(statement, path, acc) ==
    LET inner == analyze_from(statement.body, path, 1,
                              [net |-> Exact(0),
                               loop_balances |-> acc.loop_balances,
                               panicked |-> FALSE])
        index == from_loop_body(path, statement.body)
    IN  IF inner.panicked
        THEN [acc EXCEPT !.loop_balances = inner.loop_balances, !.panicked = TRUE]
        ELSE [net |-> net_loop(acc.net, inner.net),
              loop_balances |-> insert(inner.loop_balances, index, inner.net),
              panicked |-> FALSE]

\* One turn of `for statement in statements { match *statement { ... } }`.
analyze_statement(statement, path, acc) ==
    CASE statement.kind = "Loop"         -> analyze_loop(statement, path, acc)
      [] statement.op = "Right"          -> [acc EXCEPT !.net = net_right(@, statement.count)]
      [] statement.op = "Left"           -> [acc EXCEPT !.net = net_left(@, statement.count)]
      [] statement.op \in {"Add", "In", "Out"} -> acc
      [] statement.op \in JumpOps        -> [acc EXCEPT !.panicked = TRUE]
      [] statement.op \in {"SetZero", "OffsetAddRight", "OffsetAddLeft"} -> acc
      [] statement.op = "FindZeroRight"  -> [acc EXCEPT !.net = net_find_zero_right(@)]
      [] statement.op = "FindZeroLeft"   -> [acc EXCEPT !.net = net_find_zero_left(@)]

\* The walk of `statements` (the body of the loop at `path`) from statement i on.
analyze_from(statements, path, i, acc) ==
    IF acc.panicked \/ i > Len(statements)
    THEN acc
    ELSE analyze_from(statements, path, i + 1,
                      analyze_statement(statements[i], Append(path, i), acc))

\* analyze taking up the walk from the summary the map already holds for the
\* body, where it holds one.
analyze_resumes(statements, path, balances) ==
    LET index == from_loop_body(path, statements)
    IN  analyze_from(statements, path, 1,
                     [net |-> IF index \in DOMAIN balances THEN balances[index]
                              ELSE Exact(0),
                      loop_balances |-> balances, panicked |-> FALSE])

analyze(statements, path, balances) ==
    analyze_from(statements, path, 1,
                 [net |-> Exact(0), loop_balances |-> balances, panicked |-> FALSE])

RECURSIVE analyze_program_from(_, _, _)

\* One turn of analyze_program's loop over the top-level statements.
analyze_program_statement(statement, path, acc) ==
    IF statement.kind = "Instr"
    THEN acc
    ELSE LET balance == analyze(statement.body, path, acc.loop_balances)
         IN  IF balance.panicked
             THEN [loop_balances |-> balance.loop_balances, panicked |-> TRUE]
             ELSE [loop_balances |->
                       insert(balance.loop_balances,
                              from_loop_body(path, statement.body), balance.net),
                   panicked |-> FALSE]

analyze_program_from(statements, i, acc) ==
    IF acc.panicked \/ i > Len(statements)
    THEN acc
    ELSE analyze_program_from(statements, i + 1,
                              analyze_program_statement(statements[i], <<i>>, acc))

analyze_program(statements, balances) ==
    analyze_program_from(statements, 1, [loop_balances |-> balances, panicked |-> FALSE])

\* new running the summarization pass whatever `checked` says.
new_always_analyzes(prog, chk) ==
    LET analysed == analyze_program(prog, EmptyMap)
    IN  [left_mark |-> 0, right_mark |-> 0, loop_stack |-> <<>>,
         loop_balances |-> analysed.loop_balances, panicked |-> analysed.panicked]

\* AbstractInterpreter::new: the fields of the result, or a panic.
new(prog, chk) ==
    LET analysed == IF chk THEN analyze_program(prog, EmptyMap)
                    ELSE [loop_balances |-> EmptyMap, panicked |-> FALSE]
    IN  [left_mark |-> 0, right_mark |-> 0, loop_stack |-> <<>>,
         loop_balances |-> analysed.loop_balances, panicked |-> analysed.panicked]

(***************************************************************************)
(* impl BoundsAnalysis for AbstractInterpreter.  `self` is the record of   *)
(* the four fields; a call yields the fields after it and what it returns. *)
(***************************************************************************)
\* move_left with the comparison `count < self.left_mark`.
move_left_strict(self, count) ==
    LET added == [self EXCEPT !.right_mark = @ + count]
    IN  IF count < added.left_mark
        THEN [self |-> [added EXCEPT !.left_mark = @ - count], result |-> TRUE]
        ELSE [self |-> [added EXCEPT !.left_mark = 0], result |-> FALSE]

move_left(self, count) ==
    LET added == [self EXCEPT !.right_mark = @ + count]
    IN  IF count <= added.left_mark
        THEN [self |-> [added EXCEPT !.left_mark = @ - count], result |-> TRUE]
        ELSE [self |-> [added EXCEPT !.left_mark = 0], result |-> FALSE]

\* move_right without `self.left_mark += count`.
move_right_no_credit(self, count) ==
    IF count <= self.right_mark
    THEN [self |-> [self EXCEPT !.right_mark = @ - count], result |-> TRUE]
    ELSE [self |-> [self EXCEPT !.right_mark = 0], result |-> FALSE]

\* move_right without `self.right_mark = 0` on the unproven branch.
move_right_keeps_mark(self, count) ==
    LET added == [self EXCEPT !.left_mark = @ + count]
    IN  IF count <= added.right_mark
        THEN [self |-> [added EXCEPT !.right_mark = @ - count], result |-> TRUE]
        ELSE [self |-> added, result |-> FALSE]

move_right(self, count) ==
    LET added == [self EXCEPT !.left_mark = @ + count]
    IN  IF count <= added.right_mark
        THEN [self |-> [added EXCEPT !.right_mark = @ - count], result |-> TRUE]
        ELSE [self |-> [added EXCEPT !.right_mark = 0], result |-> FALSE]

\* reset_left clearing both marks, as reset does.
reset_left_resets_both(self) == [self EXCEPT !.left_mark = 0, !.right_mark = 0]

reset_left(self) == [self EXCEPT !.left_mark = 0]

reset_right(self) == [self EXCEPT !.right_mark = 0]

reset(self) == reset_right(reset_left(self))

\* enter_loop pushing the marks it was called with, before the policy is applied.
enter_loop_pushes_first(self, index) ==
    LET policy ==
            IF index \in DOMAIN self.loop_balances
            THEN LET balance == self.loop_balances[index]
                 IN  IF is_balanced(balance) THEN self
                     ELSE IF is_right_only(balance) THEN reset_right(self)
                     ELSE IF is_left_only(balance) THEN reset_left(self)
                     ELSE reset(self)
            ELSE reset(self)
    IN  [policy EXCEPT !.loop_stack = Append(@, <<self.left_mark, self.right_mark>>)]

\* enter_loop that resets no mark, whatever the balance of the loop.
enter_loop_keeps_marks(self, index) ==
    [self EXCEPT !.loop_stack = Append(@, <<self.left_mark, self.right_mark>>)]

\* `index` is LoopIndex::from_loop_body(body) of the body handed in.
enter_loop(self, index) ==
    LET policy ==
            IF index \in DOMAIN self.loop_balances
            THEN LET balance == self.loop_balances[index]
                 IN  IF is_balanced(balance) THEN self
                     ELSE IF is_right_only(balance) THEN reset_right(self)
                     ELSE IF is_left_only(balance) THEN reset_left(self)
                     ELSE reset(self)
            ELSE reset(self)
    IN  [policy EXCEPT !.loop_stack = Append(@, <<policy.left_mark, policy.right_mark>>)]

\* leave_loop reading the top frame with last() and leaving it on the stack.
leave_loop_keeps_frame(self) ==
    IF self.loop_stack = <<>>
    THEN [self |-> self, panicked |-> TRUE]
    ELSE LET top == self.loop_stack[Len(self.loop_stack)]
         IN  [self |-> [self EXCEPT !.left_mark = top[1], !.right_mark = top[2]],
              panicked |-> FALSE]

\* leave_loop popping the frame and leaving the marks as the body left them.
leave_loop_discards_frame(self) ==
    IF self.loop_stack = <<>>
    THEN [self |-> self, panicked |-> TRUE]
    ELSE [self |-> [self EXCEPT !.loop_stack = SubSeq(@, 1, Len(@) - 1)],
          panicked |-> FALSE]

\* leave_loop restoring left_mark only.
leave_loop_restores_left(self) ==
    IF self.loop_stack = <<>>
    THEN [self |-> self, panicked |-> TRUE]
    ELSE LET top == self.loop_stack[Len(self.loop_stack)]
         IN  [self |-> [self EXCEPT !.loop_stack = SubSeq(@, 1, Len(@) - 1),
                                    !.left_mark = top[1]],
              panicked |-> FALSE]

\* leave_loop with pop().unwrap_or((0, 0)) in place of expect.
leave_loop_defaults(self) ==
    LET top == IF self.loop_stack = <<>> THEN <<0, 0>>
               ELSE self.loop_stack[Len(self.loop_stack)]
    IN  [self |-> [self EXCEPT !.loop_stack = SubSeq(@, 1, Len(@) - 1),
                               !.left_mark = top[1],
                               !.right_mark = top[2]],
         panicked |-> FALSE]

\* Vec::pop().expect(..): a panic on the empty stack.
leave_loop(self) ==
    IF self.loop_stack = <<>>
    THEN [self |-> self, panicked |-> TRUE]
    ELSE LET top == self.loop_stack[Len(self.loop_stack)]
         IN  [self |-> [self EXCEPT !.loop_stack = SubSeq(@, 1, Len(@) - 1),
                                    !.left_mark = top[1],
                                    !.right_mark = top[2]],
              panicked |-> FALSE]

(***************************************************************************)
(* Spec: construction, then any sequence of BoundsAnalysis calls.          *)
(***************************************************************************)
Right1 == Instr("Right", 1)

Left1 == Instr("Left", 1)

\* One program with a loop of every balance class (balanced with an empty and
\* with a non-empty body, Exact(1), Exact(-1), RightOnly, LeftOnly, Unknown), a
\* program whose nested loops differ from the loop around them, and one holding
\* a raw jump inside a loop.
SpecPrograms ==
    { << Loop(<< >>), Loop(<<Right1, Left1>>), Loop(<<Right1>>), Loop(<<Left1>>),
         Loop(<<Instr("FindZeroRight", 1)>>), Loop(<<Instr("FindZeroLeft", 1)>>),
         Loop(<<Instr("FindZeroRight", 1), Instr("FindZeroLeft", 1)>>) >>,
      << Right1, Loop(<<Loop(<<Right1>>), Loop(<<Left1>>)>>) >>,
      << Loop(<<Instr("Add", 1), Instr("JumpZero", 0)>>) >> }

\* A non-empty loop body that is no part of the program handed to new.
ForeignIndex == <<0>>

NoCall ==
    [op |-> "none", count |-> 0, index |-> <<>>, result |-> FALSE,
     before |-> <<0, 0>>, value |-> 0]

\* `before` is read in the state the call is made in.
Call(op, count, index, result) ==
    [op |-> op, count |-> count, index |-> index, result |-> result,
     before |-> <<left_mark, right_mark>>, value |-> 0]

Self ==
    [left_mark |-> left_mark, right_mark |-> right_mark,
     loop_stack |-> loop_stack, loop_balances |-> loop_balances]

\* The fields of the interpreter become those of `self`.
Becomes(self) ==
    /\ left_mark' = self.left_mark
    /\ right_mark' = self.right_mark
    /\ loop_stack' = self.loop_stack
    /\ loop_balances' = self.loop_balances

\* No walk of the program is under way.
NoWalk ==
    /\ cursor = <<>>
    /\ proved = EmptyMap
    /\ pushed = EmptyMap
    /\ restored = EmptyMap
    /\ fuel = 0

Init ==
    /\ program \in SpecPrograms
    /\ checked \in BOOLEAN
    /\ pc = "new"
    /\ left_mark = 0
    /\ right_mark = 0
    /\ loop_stack = <<>>
    /\ loop_balances = EmptyMap
    /\ ret = NoCall
    /\ entered = <<>>
    /\ before_loop = <<>>
    /\ memory = <<>>
    /\ pointer = 0
    /\ NoWalk

\* AbstractInterpreter::new(program, checked)
New ==
    /\ pc = "new"
    /\ LET result == new(program, checked)
       IN  /\ pc' = IF result.panicked THEN "panicked" ELSE "ready"
           /\ Becomes(result)
    /\ ret' = Call("new", 0, <<>>, FALSE)
    /\ UNCHANGED <<program, checked, entered, before_loop, memory, pointer, walkvars>>

MoveLeft ==
    /\ pc = "ready"
    /\ \E count \in 0..MaxCount :
          /\ right_mark + count <= MaxMark
          /\ LET r == move_left(Self, count)
             IN  /\ Becomes(r.self)
                 /\ ret' = Call("move_left", count, <<>>, r.result)
    /\ UNCHANGED <<program, checked, pc, entered, before_loop, memory, pointer, walkvars>>

MoveRight ==
    /\ pc = "ready"
    /\ \E count \in 0..MaxCount :
          /\ left_mark + count <= MaxMark
          /\ LET r == move_right(Self, count)
             IN  /\ Becomes(r.self)
                 /\ ret' = Call("move_right", count, <<>>, r.result)
    /\ UNCHANGED <<program, checked, pc, entered, before_loop, memory, pointer, walkvars>>

ResetLeft ==
    /\ pc = "ready"
    /\ Becomes(reset_left(Self))
    /\ ret' = Call("reset_left", 0, <<>>, FALSE)
    /\ UNCHANGED <<program, checked, pc, entered, before_loop, memory, pointer, walkvars>>

ResetRight ==
    /\ pc = "ready"
    /\ Becomes(reset_right(Self))
    /\ ret' = Call("reset_right", 0, <<>>, FALSE)
    /\ UNCHANGED <<program, checked, pc, entered, before_loop, memory, pointer, walkvars>>

\* enter_loop(body), for the body of a summarized loop, for an empty body and for
\* a body the summarization pass never saw.
EnterLoop ==
    /\ pc = "ready"
    /\ Len(loop_stack) < MaxDepth
    /\ \E index \in DOMAIN loop_balances \cup {DanglingIndex, ForeignIndex} :
          /\ Becomes(enter_loop(Self, index))
          /\ ret' = Call("enter_loop", 0, index, FALSE)
    /\ entered' = Append(entered, <<left_mark', right_mark'>>)
    /\ UNCHANGED <<program, checked, pc, before_loop, memory, pointer, walkvars>>

LeaveLoop ==
    /\ pc = "ready"
    /\ LET r == leave_loop(Self)
       IN  /\ Becomes(r.self)
           /\ pc' = IF r.panicked THEN "panicked" ELSE "ready"
    /\ ret' = Call("leave_loop", 0, <<>>, FALSE)
    /\ entered' = IF entered = <<>> THEN entered ELSE SubSeq(entered, 1, Len(entered) - 1)
    /\ UNCHANGED <<program, checked, before_loop, memory, pointer, walkvars>>

Moves == {"move_left", "move_right"}

Marks == <<left_mark, right_mark>>

Next ==
    \/ New
    \/ MoveLeft
    \/ MoveRight
    \/ ResetLeft
    \/ ResetRight
    \/ EnterLoop
    \/ LeaveLoop

Spec == Init /\ [][Next]_vars

(***************************************************************************)
(* State, the BF tape machine (src/state.rs).  `self` is [memory, pointer];*)
(* a BfResult is a record with `ok` and, when ok, the value.               *)
(***************************************************************************)
with_capacity(capacity) == [memory |-> [i \in 1..capacity |-> 0], pointer |-> 0]

\* pos_offset with `<=` in place of `<`.
pos_offset_inclusive(self, offset) ==
    IF self.pointer + offset <= Len(self.memory)
    THEN [ok |-> TRUE, value |-> self.pointer + offset]
    ELSE [ok |-> FALSE, value |-> 0]

pos_offset(self, offset) ==
    IF self.pointer + offset < Len(self.memory)
    THEN [ok |-> TRUE, value |-> self.pointer + offset]
    ELSE [ok |-> FALSE, value |-> 0]

neg_offset(self, offset) ==
    IF self.pointer >= offset
    THEN [ok |-> TRUE, value |-> self.pointer - offset]
    ELSE [ok |-> FALSE, value |-> 0]

\* left that goes to cell 0 when it returns PointerUnderflow.
left_saturates(self, count) ==
    LET r == neg_offset(self, count)
    IN  IF r.ok THEN [ok |-> TRUE, self |-> [self EXCEPT !.pointer = r.value]]
        ELSE [ok |-> FALSE, self |-> [self EXCEPT !.pointer = 0]]

\* self.pointer = self.neg_offset(count)?; Ok(())
left(self, count) ==
    LET r == neg_offset(self, count)
    IN  IF r.ok THEN [ok |-> TRUE, self |-> [self EXCEPT !.pointer = r.value]]
        ELSE [ok |-> FALSE, self |-> self]

\* self.pointer = self.pos_offset(count)?; Ok(())
right(self, count) ==
    LET r == pos_offset(self, count)
    IN  IF r.ok THEN [ok |-> TRUE, self |-> [self EXCEPT !.pointer = r.value]]
        ELSE [ok |-> FALSE, self |-> self]

\* u8: a memory cell and the count of up / down.
U8Modulus == 256

U8 == 0..(U8Modulus - 1)

wrapping_add(a, b) == (a + b) % U8Modulus

wrapping_sub(a, b) == (a + U8Modulus - b) % U8Modulus

\* self.memory[self.pointer]; memory is a sequence, cell 0 its first element.
load(self) == self.memory[self.pointer + 1]

\* store writing cell 0 whatever the pointer.
store_at_zero(self, value) == [self EXCEPT !.memory[1] = value]

store(self, value) == [self EXCEPT !.memory[self.pointer + 1] = value]

up(self, count) == store(self, wrapping_add(load(self), count))

\* down with saturating_sub in place of wrapping_sub.
down_saturating(self, count) ==
    store(self, IF load(self) >= count THEN load(self) - count ELSE 0)

down(self, count) == store(self, wrapping_sub(load(self), count))

up_pos_offset(self, offset, value) ==
    LET address == pos_offset(self, offset)
    IN  IF address.ok
        THEN [ok |-> TRUE,
              self |-> [self EXCEPT !.memory[address.value + 1] = wrapping_add(@, value)]]
        ELSE [ok |-> FALSE, self |-> self]

up_neg_offset(self, offset, value) ==
    LET address == neg_offset(self, offset)
    IN  IF address.ok
        THEN [ok |-> TRUE,
              self |-> [self EXCEPT !.memory[address.value + 1] = wrapping_add(@, value)]]
        ELSE [ok |-> FALSE, self |-> self]

Tape == [memory |-> memory, pointer |-> pointer]

(***************************************************************************)
(* SpecMove: straight-line code.  Each move is announced to the            *)
(* interpreter and then made on the tape; an Err of the tape machine ends  *)
(* the run (pc = "failed").                                                *)
(***************************************************************************)
InitMove ==
    /\ program = <<>>
    /\ checked = TRUE
    /\ pc = "ready"
    /\ left_mark = 0
    /\ right_mark = 0
    /\ loop_stack = <<>>
    /\ loop_balances = EmptyMap
    /\ ret = NoCall
    /\ entered = <<>>
    /\ before_loop = <<>>
    /\ \E capacity \in 1..MaxCap : memory = with_capacity(capacity).memory
    /\ pointer = 0
    /\ NoWalk

StepLeft ==
    /\ pc = "ready"
    /\ \E count \in 0..MaxCount :
          /\ right_mark + count <= MaxMark
          /\ LET proof == move_left(Self, count)
                 moved == left(Tape, count)
             IN  /\ Becomes(proof.self)
                 /\ ret' = Call("move_left", count, <<>>, proof.result)
                 /\ pointer' = moved.self.pointer
                 /\ memory' = moved.self.memory
                 /\ pc' = IF moved.ok THEN "ready" ELSE "failed"
    /\ UNCHANGED <<program, checked, entered, before_loop, walkvars>>

StepRight ==
    /\ pc = "ready"
    /\ \E count \in 0..MaxCount :
          /\ left_mark + count <= MaxMark
          /\ LET proof == move_right(Self, count)
                 moved == right(Tape, count)
             IN  /\ Becomes(proof.self)
                 /\ ret' = Call("move_right", count, <<>>, proof.result)
                 /\ pointer' = moved.self.pointer
                 /\ memory' = moved.self.memory
                 /\ pc' = IF moved.ok THEN "ready" ELSE "failed"
    /\ UNCHANGED <<program, checked, entered, before_loop, walkvars>>

NextMove ==
    \/ StepLeft
    \/ StepRight
    \/ ResetLeft
    \/ ResetRight

SpecMove == InitMove /\ [][NextMove]_vars

\* The marks are lower bounds on the distances of the pointer to the two ends.
MarksAreBounds ==
    /\ left_mark <= pointer
    /\ right_mark <= Len(memory) - 1 - pointer

\* C1: a move the interpreter proved succeeds on the tape machine, and after every
\* move that succeeded on the tape, proven or not, the marks are again lower
\* bounds on the distances of the pointer to the two ends of memory.
C1_StepSound ==
    /\ (ret.op \in Moves /\ ret.result) => pc = "ready"
    /\ pc = "ready" => MarksAreBounds

\* An unproven move_right succeeded on the tape and reached the last cell after
\* the marks had been bounds short of the true distances.
C1_Witness ==
    /\ ret.op = "move_right"
    /\ ret.count > 0
    /\ ~ret.result
    /\ pc = "ready"
    /\ pointer = Len(memory) - 1
    /\ 0 < left_mark
    /\ left_mark < pointer

(***************************************************************************)
(* SpecAnalyze: the summarization pass (analyze_program) over every tree   *)
(* of at most MaxNodes statements.                                         *)
(***************************************************************************)
\* One instruction of every arm of analyze's match.
AnalyzeLeaves ==
    {Right1, Left1, Instr("Add", 1), Instr("SetZero", 0), Instr("JumpZero", 0),
     Instr("FindZeroRight", 1), Instr("FindZeroLeft", 1)}

RECURSIVE ForestTable(_, _)

\* The statement sequences over the instructions `leaves` by their number of
\* statements ("nodes", at any depth): element i + 1 holds those of i nodes.
ForestTable(leaves, n) ==
    IF n = 0 THEN << {<< >>} >>
    ELSE LET prev == ForestTable(leaves, n - 1)
             trees(k) == IF k = 1 THEN leaves \cup {Loop(<< >>)}
                         ELSE {Loop(body) : body \in prev[k]}
             level == UNION { {<<t>> \o rest : t \in trees(k), rest \in prev[n - k + 1]} :
                              k \in 1..n }
         IN  Append(prev, level)

\* The programs of at most n nodes over the instructions `leaves`.
Programs(leaves, n) ==
    LET table == ForestTable(leaves, n)
    IN  UNION {table[i] : i \in 1..(n + 1)}

InitAnalyze ==
    /\ program \in Programs(AnalyzeLeaves, MaxNodes)
    /\ checked = TRUE
    /\ pc = "new"
    /\ left_mark = 0
    /\ right_mark = 0
    /\ loop_stack = <<>>
    /\ loop_balances = EmptyMap
    /\ ret = NoCall
    /\ entered = <<>>
    /\ before_loop = <<>>
    /\ memory = <<>>
    /\ pointer = 0
    /\ NoWalk

\* self.analyze_program(program), as new calls it on the fresh interpreter.
AnalyzeProgram ==
    /\ pc = "new"
    /\ LET result == analyze_program(program, loop_balances)
       IN  /\ loop_balances' = result.loop_balances
           /\ pc' = IF result.panicked THEN "panicked" ELSE "analyzed"
    /\ ret' = Call("analyze_program", 0, <<>>, FALSE)
    /\ UNCHANGED <<program, checked, left_mark, right_mark, loop_stack, entered, before_loop,
                   memory, pointer, walkvars>>

\* The pass run once more over the unchanged program, on top of the map the
\* first run left.
AnalyzeAgain ==
    /\ pc = "analyzed"
    /\ ret.count = 0
    /\ LET result == analyze_program(program, loop_balances)
       IN  /\ loop_balances' = result.loop_balances
           /\ pc' = IF result.panicked THEN "panicked" ELSE "analyzed"
    /\ ret' = Call("analyze_program", 1, <<>>, FALSE)
    /\ UNCHANGED <<program, checked, left_mark, right_mark, loop_stack, entered, before_loop,
                   memory, pointer, walkvars>>

NextAnalyze ==
    \/ AnalyzeProgram
    \/ AnalyzeAgain

SpecAnalyze == InitAnalyze /\ [][NextAnalyze]_vars

RECURSIVE LoopPaths(_, _)

\* The paths of the Loop nodes of `statements`, itself found at `prefix`.
LoopPaths(statements, prefix) ==
    UNION { IF statements[i].kind = "Loop"
            THEN {Append(prefix, i)} \cup LoopPaths(statements[i].body, Append(prefix, i))
            ELSE {} : i \in 1..Len(statements) }

RECURSIVE BodyAt(_, _)

\* The body of the Loop node at `path`.
BodyAt(statements, path) ==
    IF Len(path) = 1 THEN statements[path[1]].body
    ELSE BodyAt(statements[path[1]].body, Tail(path))

RECURSIVE HasJump(_)

\* A raw conditional jump occurs in `statements`, at any depth.
HasJump(statements) ==
    \E i \in 1..Len(statements) :
        \/ statements[i].op \in JumpOps
        \/ statements[i].kind = "Loop" /\ HasJump(statements[i].body)

\* C9: after the pass on a structured program the map has exactly one entry per
\* Loop node of the tree, nested ones included, and the entry of a loop is the
\* final accumulator of that loop's own body.
C9_MapCoversEveryLoop ==
    (pc = "analyzed" /\ ~HasJump(program)) =>
        LET paths == LoopPaths(program, <<>>)
        IN  /\ DOMAIN loop_balances =
                   {from_loop_body(path, BodyAt(program, path)) : path \in paths}
            /\ \A path \in paths :
                   loop_balances[from_loop_body(path, BodyAt(program, path))]
                       = analyze(BodyAt(program, path), path, EmptyMap).net

\* The pass recorded a loop nested in a loop whose own summary is Unknown.
C9_Witness ==
    /\ pc = "analyzed"
    /\ ~HasJump(program)
    /\ \E path \in LoopPaths(program, <<>>) :
          /\ Len(path) = 2
          /\ BodyAt(program, path) # <<>>
          /\ path \in DOMAIN loop_balances
          /\ loop_balances[path].tag = "Exact"
          /\ loop_balances[<<path[1]>>] = Unknown

\* C10 as stated: the pass panics on every tree that holds a raw conditional
\* jump, at the top level of the program or inside a loop body.
C10_JumpAnywherePanics ==
    (pc # "new" /\ HasJump(program)) => pc = "panicked"

(***************************************************************************)
(* SpecRun: the code generator walks a structured program once, calling    *)
(* the interpreter at every move and loop boundary and emitting a bounds   *)
(* guard for a move exactly when its proof is false; the generated code is *)
(* then executed on a tape of some capacity, every loop running any number *)
(* of iterations (the cell values that decide it are left open).           *)
(***************************************************************************)
\* Moves of two sizes and an instruction that does not move the pointer.
RunLeaves ==
    {Instr("Right", c) : c \in {1, MaxCount}} \cup
    {Instr("Left", c) : c \in {1, MaxCount}} \cup
    {Instr("Add", 1)}

\* The path of the sequence the cursor is in, and its position there.
Parent(c) == SubSeq(c, 1, Len(c) - 1)

Index(c) == c[Len(c)]

StatementsAt(path) == IF path = <<>> THEN program ELSE BodyAt(program, path)

AtEnd(c) == Index(c) > Len(StatementsAt(Parent(c)))

Current(c) == StatementsAt(Parent(c))[Index(c)]

Advance(c) == [c EXCEPT ![Len(c)] = @ + 1]

InitRun ==
    /\ program \in Programs(RunLeaves, MaxRunNodes)
    /\ checked = TRUE
    /\ pc = "new"
    /\ left_mark = 0
    /\ right_mark = 0
    /\ loop_stack = <<>>
    /\ loop_balances = EmptyMap
    /\ ret = NoCall
    /\ entered = <<>>
    /\ before_loop = <<>>
    /\ memory = <<>>
    /\ pointer = 0
    /\ cursor = <<1>>
    /\ proved = EmptyMap
    /\ pushed = EmptyMap
    /\ restored = EmptyMap
    /\ fuel = 0

\* Code generation of an instruction: one move call per move, none otherwise.
CompileInstr ==
    /\ pc = "ready"
    /\ cursor # <<>>
    /\ ~AtEnd(cursor)
    /\ Current(cursor).kind = "Instr"
    /\ LET instr == Current(cursor)
       IN  CASE instr.op = "Right" ->
                   LET r == move_right(Self, instr.count)
                   IN  /\ Becomes(r.self)
                       /\ proved' = insert(proved, cursor, r.result)
                       /\ ret' = Call("move_right", instr.count, <<>>, r.result)
             [] instr.op = "Left" ->
                   LET r == move_left(Self, instr.count)
                   IN  /\ Becomes(r.self)
                       /\ proved' = insert(proved, cursor, r.result)
                       /\ ret' = Call("move_left", instr.count, <<>>, r.result)
             [] OTHER ->
                   UNCHANGED <<left_mark, right_mark, loop_stack, loop_balances,
                               proved, ret>>
    /\ cursor' = Advance(cursor)
    /\ UNCHANGED <<program, checked, pc, entered, before_loop, memory, pointer, pushed, restored,
                   fuel>>

\* Code generation of a loop: enter_loop(body), then the body.
CompileEnterLoop ==
    /\ pc = "ready"
    /\ cursor # <<>>
    /\ ~AtEnd(cursor)
    /\ Current(cursor).kind = "Loop"
    /\ LET index == from_loop_body(cursor, Current(cursor).body)
       IN  /\ Becomes(enter_loop(Self, index))
           /\ ret' = Call("enter_loop", 0, index, FALSE)
    /\ pushed' = insert(pushed, cursor, loop_stack'[Len(loop_stack')])
    /\ entered' = Append(entered, <<left_mark', right_mark'>>)
    /\ cursor' = Append(cursor, 1)
    /\ UNCHANGED <<program, checked, pc, before_loop, memory, pointer, proved,
                   restored, fuel>>

\* The end of a loop body: leave_loop(), then the statement after the loop.
CompileLeaveLoop ==
    /\ pc = "ready"
    /\ Len(cursor) > 1
    /\ AtEnd(cursor)
    /\ LET r == leave_loop(Self)
       IN  /\ Becomes(r.self)
           /\ pc' = IF r.panicked THEN "panicked" ELSE "ready"
    /\ ret' = Call("leave_loop", 0, <<>>, FALSE)
    /\ restored' = insert(restored, Parent(cursor), <<left_mark', right_mark'>>)
    /\ entered' = SubSeq(entered, 1, Len(entered) - 1)
    /\ cursor' = Advance(Parent(cursor))
    /\ UNCHANGED <<program, checked, before_loop, memory, pointer, proved, pushed,
                   fuel>>

\* The end of the program: the generated code is started on a zeroed tape.
CompileDone ==
    /\ pc = "ready"
    /\ Len(cursor) = 1
    /\ AtEnd(cursor)
    /\ pc' = "run"
    /\ \E capacity \in 1..MaxCap :
          /\ memory' = with_capacity(capacity).memory
          /\ pointer' = with_capacity(capacity).pointer
    /\ cursor' = <<1>>
    /\ fuel' = MaxIter
    /\ UNCHANGED <<program, checked, left_mark, right_mark, loop_stack, loop_balances,
                   ret, entered, before_loop, proved, pushed, restored>>

\* The generated code of a move: the checked move of State where a guard was
\* emitted (an Err ends the run), the bare pointer arithmetic where the move
\* was proven.
RunMove ==
    /\ pc = "run"
    /\ ~AtEnd(cursor)
    /\ Current(cursor).op \in {"Right", "Left"}
    /\ LET instr == Current(cursor)
           guarded == IF instr.op = "Right" THEN right(Tape, instr.count)
                      ELSE left(Tape, instr.count)
           bare == IF instr.op = "Right" THEN pointer + instr.count
                   ELSE pointer - instr.count
       IN  IF proved[cursor]
           THEN /\ pointer' = bare
                /\ pc' = "run"
           ELSE /\ pointer' = guarded.self.pointer
                /\ pc' = IF guarded.ok THEN "run" ELSE "failed"
    /\ cursor' = Advance(cursor)
    /\ UNCHANGED <<program, checked, left_mark, right_mark, loop_stack, loop_balances,
                   ret, entered, before_loop, memory, proved, pushed, restored, fuel>>

\* The generated code of an instruction that does not move the pointer.
RunOther ==
    /\ pc = "run"
    /\ ~AtEnd(cursor)
    /\ Current(cursor).kind = "Instr"
    /\ Current(cursor).op \notin {"Right", "Left"}
    /\ cursor' = Advance(cursor)
    /\ UNCHANGED <<program, checked, pc, left_mark, right_mark, loop_stack,
                   loop_balances, ret, entered, before_loop, memory, pointer, proved, pushed,
                   restored, fuel>>

\* The head of a loop: the cell under the pointer is not zero, an iteration starts.
RunIterate ==
    /\ pc = "run"
    /\ ~AtEnd(cursor)
    /\ Current(cursor).kind = "Loop"
    /\ fuel > 0
    /\ fuel' = fuel - 1
    /\ cursor' = Append(cursor, 1)
    /\ UNCHANGED <<program, checked, pc, left_mark, right_mark, loop_stack,
                   loop_balances, ret, entered, before_loop, memory, pointer, proved, pushed,
                   restored>>

\* The head of a loop: the cell under the pointer is zero, the loop is skipped.
RunExit ==
    /\ pc = "run"
    /\ ~AtEnd(cursor)
    /\ Current(cursor).kind = "Loop"
    /\ cursor' = Advance(cursor)
    /\ UNCHANGED <<program, checked, pc, left_mark, right_mark, loop_stack,
                   loop_balances, ret, entered, before_loop, memory, pointer, proved, pushed,
                   restored, fuel>>

\* The end of a loop body: the cell under the pointer is not zero, the next
\* iteration starts.
RunRepeat ==
    /\ pc = "run"
    /\ Len(cursor) > 1
    /\ AtEnd(cursor)
    /\ fuel > 0
    /\ fuel' = fuel - 1
    /\ cursor' = Append(Parent(cursor), 1)
    /\ UNCHANGED <<program, checked, pc, left_mark, right_mark, loop_stack,
                   loop_balances, ret, entered, before_loop, memory, pointer, proved, pushed,
                   restored>>

\* The end of a loop body: the cell under the pointer is zero, the loop is left.
RunLeave ==
    /\ pc = "run"
    /\ Len(cursor) > 1
    /\ AtEnd(cursor)
    /\ cursor' = Advance(Parent(cursor))
    /\ UNCHANGED <<program, checked, pc, left_mark, right_mark, loop_stack,
                   loop_balances, ret, entered, before_loop, memory, pointer, proved, pushed,
                   restored, fuel>>

\* The end of the program.
RunDone ==
    /\ pc = "run"
    /\ Len(cursor) = 1
    /\ AtEnd(cursor)
    /\ pc' = "done"
    /\ UNCHANGED <<program, checked, left_mark, right_mark, loop_stack,
                   loop_balances, ret, entered, before_loop, memory, pointer, cursor, proved,
                   pushed, restored, fuel>>

NextRun ==
    \/ New
    \/ CompileInstr
    \/ CompileEnterLoop
    \/ CompileLeaveLoop
    \/ CompileDone
    \/ RunMove
    \/ RunOther
    \/ RunIterate
    \/ RunExit
    \/ RunRepeat
    \/ RunLeave
    \/ RunDone

SpecRun == InitRun /\ [][NextRun]_vars

\* The pair `marks` bounds the distances of the pointer to the two ends from below.
BoundsPointer(marks) ==
    /\ marks[1] <= pointer
    /\ marks[2] <= Len(memory) - 1 - pointer

\* C2: in every execution the marks enter_loop pushed for a loop are lower bounds
\* on the distances of the pointer to the ends of memory at the start of every
\* iteration of that loop, the marks leave_loop restored are lower bounds once
\* the loop is left, and every move whose proof was true stays inside memory.
C2_LoopSound ==
    pc = "run" =>
        /\ pointer \in 0..(Len(memory) - 1)
        /\ (Len(cursor) > 1 /\ Index(cursor) = 1) => BoundsPointer(pushed[Parent(cursor)])
        /\ (Index(cursor) > 1 /\ StatementsAt(Parent(cursor))[Index(cursor) - 1].kind = "Loop")
               => BoundsPointer(restored[[cursor EXCEPT ![Len(cursor)] = @ - 1]])
        /\ (~AtEnd(cursor) /\ Current(cursor).op = "Right" /\ proved[cursor])
               => pos_offset(Tape, Current(cursor).count).ok
        /\ (~AtEnd(cursor) /\ Current(cursor).op = "Left" /\ proved[cursor])
               => neg_offset(Tape, Current(cursor).count).ok

\* The execution is in a later iteration of a loop whose pushed marks are not
\* (0, 0), about to make a move that was proven and carries no guard.
C2_Witness ==
    /\ pc = "run"
    /\ Len(cursor) > 1
    /\ ~AtEnd(cursor)
    /\ Current(cursor).op = "Left"
    /\ proved[cursor]
    /\ pushed[Parent(cursor)] # <<0, 0>>
    /\ fuel <= MaxIter - 2

(***************************************************************************)
(* Claims about the BoundsAnalysis calls (Spec).                           *)
(***************************************************************************)
\* C3: move_left(count) returns true iff count <= left_mark and leaves
\* (L - count, R + count) on true, (0, R + count) on false; move_right is the
\* mirror image; neither call panics and neither mark becomes negative.
C3_MoveRule ==
    [][ /\ ret'.op = "move_left" =>
              /\ ret'.result = (ret'.count <= left_mark)
              /\ right_mark' = right_mark + ret'.count
              /\ left_mark' = IF ret'.count <= left_mark
                              THEN left_mark - ret'.count ELSE 0
        /\ ret'.op = "move_right" =>
              /\ ret'.result = (ret'.count <= right_mark)
              /\ left_mark' = left_mark + ret'.count
              /\ right_mark' = IF ret'.count <= right_mark
                               THEN right_mark - ret'.count ELSE 0
        /\ ret'.op \in Moves =>
              /\ pc' = "ready"
              /\ left_mark' >= 0
              /\ right_mark' >= 0 ]_vars

\* An unproven move_left of a positive count has left (0, R + count).
C3_Witness ==
    /\ ret.op = "move_left"
    /\ ~ret.result
    /\ ret.count = 2
    /\ Marks = <<0, 3>>

\* C4 as stated: every move call leaves both marks with a value other than the
\* one they had before the call.
C4_BothMarksChange ==
    [][ ret'.op \in Moves =>
            /\ left_mark' # left_mark
            /\ right_mark' # right_mark ]_vars

\* C4 as amended: the mark of the side moved away from changes exactly when
\* count > 0; the mark of the side moved toward changes exactly when count > 0
\* and that mark was positive before the call.
C4_MarksChangeWhen ==
    [][ /\ ret'.op = "move_left" =>
              /\ (right_mark' # right_mark) <=> (ret'.count > 0)
              /\ (left_mark' # left_mark) <=> (ret'.count > 0 /\ left_mark > 0)
        /\ ret'.op = "move_right" =>
              /\ (left_mark' # left_mark) <=> (ret'.count > 0)
              /\ (right_mark' # right_mark) <=> (ret'.count > 0 /\ right_mark > 0) ]_vars

\* An unproven move_right of a positive count ended with right_mark at 0, after
\* a call that had left it at 0 already.
C4_Witness ==
    /\ ret.op = "move_right"
    /\ ret.count > 0
    /\ ~ret.result
    /\ Marks = <<MaxMark, 0>>

\* The pair the policy of enter_loop yields for the loop `index` from (L, R).
C5_Policy(index, L, R) ==
    IF index \notin DOMAIN loop_balances THEN <<0, 0>>
    ELSE LET b == loop_balances[index]
         IN  CASE b.tag = "Exact" /\ b.disp = 0                      -> <<L, R>>
               [] b.tag = "RightOnly" \/ (b.tag = "Exact" /\ b.disp > 0) -> <<L, 0>>
               [] b.tag = "LeftOnly" \/ (b.tag = "Exact" /\ b.disp < 0)  -> <<0, R>>
               [] b.tag = "Unknown"                                   -> <<0, 0>>

\* C5: enter_loop sets the marks by the policy of the loop's balance (absent and
\* Unknown reset both, Exact(0) neither, right-only the right mark, left-only the
\* left mark) and pushes the resulting pair.
C5_EnterLoopPolicy ==
    [][ ret'.op = "enter_loop" =>
            LET after == C5_Policy(ret'.index, left_mark, right_mark)
            IN  /\ <<left_mark', right_mark'>> = after
                /\ loop_stack' = Append(loop_stack, after) ]_vars

\* enter_loop on a RightOnly loop kept a positive left mark and pushed (L, 0).
C5_Witness ==
    /\ ret.op = "enter_loop"
    /\ ret.index \in DOMAIN loop_balances
    /\ loop_balances[ret.index] = RightOnly
    /\ left_mark > 0
    /\ loop_stack[Len(loop_stack)] = <<left_mark, 0>>

\* C6: the marks right after a leave_loop are those its matching enter_loop
\* returned with, whatever was called in between.
C6_LeaveRestoresEntry ==
    [][ (ret'.op = "leave_loop" /\ pc' = "ready") =>
            <<left_mark', right_mark'>> = entered[Len(entered)] ]_vars

\* A leave_loop closed an inner loop and restored marks that are not (0, 0).
C6_Witness ==
    /\ ret.op = "leave_loop"
    /\ pc = "ready"
    /\ Len(loop_stack) = 1
    /\ left_mark > 0
    /\ right_mark > 0

\* C7: leave_loop panics exactly when the loop stack is empty, which is exactly
\* when every enter_loop so far has been matched.
C7_LeavePanicsIffEmpty ==
    [][ ret'.op = "leave_loop" =>
            /\ (pc' = "panicked") <=> (loop_stack = <<>>)
            /\ (pc' = "panicked") <=> (entered = <<>>) ]_vars

\* A leave_loop has panicked.
C7_Witness ==
    /\ ret.op = "leave_loop"
    /\ pc = "panicked"

\* C8: with checked = false the map is and stays empty, every enter_loop leaves
\* and pushes (0, 0), every leave_loop restores (0, 0), the first move of a
\* positive count after a loop boundary is unproven, and a move is proven
\* exactly when count <= the mark it moves toward.
C8_DisabledAnalysis ==
    /\ [](( ~checked /\ pc # "new") =>
            /\ loop_balances = EmptyMap
            /\ \A i \in DOMAIN loop_stack : loop_stack[i] = <<0, 0>>
            /\ (ret.op = "enter_loop" \/ (ret.op = "leave_loop" /\ pc = "ready"))
                   => Marks = <<0, 0>>)
    /\ [][ ~checked =>
            /\ (ret.op \in {"enter_loop", "leave_loop"} /\ ret'.op \in Moves
                  /\ ret'.count > 0) => ~ret'.result
            /\ ret'.op = "move_left" => (ret'.result = (ret'.count <= left_mark))
            /\ ret'.op = "move_right" => (ret'.result = (ret'.count <= right_mark)) ]_vars

\* With the analysis disabled a straight-line move inside a loop was proven.
C8_Witness ==
    /\ ~checked
    /\ ret.op = "move_right"
    /\ ret.count > 0
    /\ ret.result
    /\ Len(loop_stack) > 0

(***************************************************************************)
(* Claims about the summarization pass run twice (SpecAnalyze).            *)
(***************************************************************************)
\* C11: the map of a run is the map of any other run over the same program, a
\* second run on top of the map of the first leaves the map as it is, and the
\* entry of a loop is the summary of its body taken on its own, wherever the
\* loop sits in the program.
C11_DeterministicIdempotent ==
    /\ [](pc = "analyzed" =>
            /\ loop_balances = analyze_program(program, EmptyMap).loop_balances
            /\ \A path \in LoopPaths(program, <<>>) :
                   LET body == BodyAt(program, path)
                   IN  loop_balances[from_loop_body(path, body)]
                           = analyze(body, <<0>>, EmptyMap).net)
    /\ [][ (ret'.op = "analyze_program" /\ ret'.count = 1) =>
              /\ pc' = "analyzed"
              /\ loop_balances' = loop_balances ]_vars

\* The pass has run twice over a program holding the same non-empty body at two
\* places, and the two entries are the same unbalanced summary.
C11_Witness ==
    /\ pc = "analyzed"
    /\ ret.count = 1
    /\ \E p, q \in LoopPaths(program, <<>>) :
          /\ p # q
          /\ BodyAt(program, p) # <<>>
          /\ BodyAt(program, p) = BodyAt(program, q)
          /\ loop_balances[p] = loop_balances[q]
          /\ loop_balances[p] # Exact(0)

(***************************************************************************)
(* Further claims about the BoundsAnalysis calls (Spec).                   *)
(***************************************************************************)
\* C12: no call of the trait changes loop_balances; move_left, move_right,
\* reset_left and reset_right leave loop_stack as it is; reset_left leaves
\* right_mark and reset_right leaves left_mark as it is.
C12_Frame ==
    [][ /\ ret'.op \in {"move_left", "move_right", "reset_left", "reset_right",
                        "enter_loop", "leave_loop"}
              => loop_balances' = loop_balances
        /\ ret'.op \in {"move_left", "move_right", "reset_left", "reset_right"}
              => loop_stack' = loop_stack
        /\ ret'.op = "reset_left" => right_mark' = right_mark
        /\ ret'.op = "reset_right" => left_mark' = left_mark ]_vars

\* reset_left was called inside a loop of a summarized program with both marks
\* positive, and right_mark is still positive.
C12_Witness ==
    /\ ret.op = "reset_left"
    /\ ret.before[1] > 0
    /\ ret.before[2] > 0
    /\ right_mark = ret.before[2]
    /\ loop_stack # <<>>
    /\ loop_balances # EmptyMap

\* C13: the depth of loop_stack is the number of enter_loop calls made so far
\* less the number of leave_loop calls that returned (the length of the history
\* of unmatched enter_loop calls); it is 0 right after new, with or without the
\* summarization pass, and 0 whenever every enter_loop has been matched.
C13_DepthIsNesting ==
    /\ Len(loop_stack) = Len(entered)
    /\ pc = "new" => loop_stack = <<>>
    /\ (ret.op = "new" /\ pc = "ready") => loop_stack = <<>>

\* After new had summarized a program, two nested enter_loop calls were matched
\* by two leave_loop calls and the stack is empty again.
C13_Witness ==
    /\ checked
    /\ loop_balances # EmptyMap
    /\ ret.op = "leave_loop"
    /\ pc = "ready"
    /\ loop_stack = <<>>
    /\ entered = <<>>
    /\ before_loop = <<>>

\* C14: a move_right of a positive count made with right_mark = 0 returns false,
\* leaves right_mark at 0 and adds count to left_mark, so any run of such calls
\* is unproven throughout and left_mark grows by the sum of the counts;
\* move_left with left_mark = 0 is the mirror image.
C14_NoProofWithoutReplenishment ==
    [][ /\ (ret'.op = "move_right" /\ ret'.count > 0 /\ right_mark = 0) =>
              /\ ~ret'.result
              /\ right_mark' = 0
              /\ left_mark' = left_mark + ret'.count
        /\ (ret'.op = "move_left" /\ ret'.count > 0 /\ left_mark = 0) =>
              /\ ~ret'.result
              /\ left_mark' = 0
              /\ right_mark' = right_mark + ret'.count ]_vars

\* The last of three unproven move_right(1) calls from (0, 0) has left (3, 0).
C14_Witness ==
    /\ ret.op = "move_right"
    /\ ret.count = 1
    /\ ~ret.result
    /\ ret.before = <<2, 0>>
    /\ Marks = <<3, 0>>
    /\ loop_stack = <<>>

\* C15: a move_left(count) made right after a move_right(count) returns true,
\* whatever the move_right returned, and when the move_right returned true the
\* two calls leave both marks as they were before the first; move_right after
\* move_left is the mirror image.
C15_MoveUndoable ==
    [][ /\ (ret.op = "move_right" /\ ret'.op = "move_left" /\ ret'.count = ret.count) =>
              /\ ret'.result
              /\ ret.result => <<left_mark', right_mark'>> = ret.before
        /\ (ret.op = "move_left" /\ ret'.op = "move_right" /\ ret'.count = ret.count) =>
              /\ ret'.result
              /\ ret.result => <<left_mark', right_mark'>> = ret.before ]_vars

\* move_left(2) right after an unproven move_right(2) from (0, 0) was proven and
\* left (0, 2).
C15_Witness ==
    /\ ret.op = "move_left"
    /\ ret.count = 2
    /\ ret.result
    /\ ret.before = <<2, 0>>
    /\ Marks = <<0, 2>>

(***************************************************************************)
(* SpecTape: the tape machine alone.  Any sequence of its calls on a State *)
(* of some capacity; an Err is returned to the caller and the run goes on. *)
(***************************************************************************)
\* The bytes written in SpecTape: the least one and the one that wraps.
TapeBytes == {1, U8Modulus - 1}

\* A call on the State: what it was made on is the State before it.
TapeCall(op, count, value, result) ==
    [op |-> op, count |-> count, index |-> <<>>, result |-> result,
     before |-> Tape, value |-> value]

\* The State becomes `self`.
TapeBecomes(self) ==
    /\ memory' = self.memory
    /\ pointer' = self.pointer

InitTape ==
    /\ program = <<>>
    /\ checked = TRUE
    /\ pc = "ready"
    /\ left_mark = 0
    /\ right_mark = 0
    /\ loop_stack = <<>>
    /\ loop_balances = EmptyMap
    /\ ret = NoCall
    /\ entered = <<>>
    /\ before_loop = <<>>
    /\ \E capacity \in 1..MaxCap :
          /\ memory = with_capacity(capacity).memory
          /\ pointer = with_capacity(capacity).pointer
    /\ cursor = <<>>
    /\ proved = EmptyMap
    /\ pushed = EmptyMap
    /\ restored = EmptyMap
    /\ fuel = MaxWrites

TapeLeft ==
    /\ \E count \in 0..MaxCap :
          LET r == left(Tape, count)
          IN  /\ TapeBecomes(r.self)
              /\ ret' = TapeCall("left", count, 0, r.ok)
    /\ UNCHANGED <<program, checked, pc, left_mark, right_mark, loop_stack,
                   loop_balances, entered, before_loop, walkvars>>

TapeRight ==
    /\ \E count \in 0..MaxCap :
          LET r == right(Tape, count)
          IN  /\ TapeBecomes(r.self)
              /\ ret' = TapeCall("right", count, 0, r.ok)
    /\ UNCHANGED <<program, checked, pc, left_mark, right_mark, loop_stack,
                   loop_balances, entered, before_loop, walkvars>>

TapeUp ==
    /\ fuel > 0
    /\ fuel' = fuel - 1
    /\ \E count \in TapeBytes :
          /\ TapeBecomes(up(Tape, count))
          /\ ret' = TapeCall("up", count, 0, TRUE)
    /\ UNCHANGED <<program, checked, pc, left_mark, right_mark, loop_stack,
                   loop_balances, entered, before_loop, cursor, proved, pushed, restored>>

TapeDown ==
    /\ fuel > 0
    /\ fuel' = fuel - 1
    /\ \E count \in TapeBytes :
          /\ TapeBecomes(down(Tape, count))
          /\ ret' = TapeCall("down", count, 0, TRUE)
    /\ UNCHANGED <<program, checked, pc, left_mark, right_mark, loop_stack,
                   loop_balances, entered, before_loop, cursor, proved, pushed, restored>>

TapeStore ==
    /\ fuel > 0
    /\ fuel' = fuel - 1
    /\ \E value \in TapeBytes :
          /\ TapeBecomes(store(Tape, value))
          /\ ret' = TapeCall("store", 0, value, TRUE)
    /\ UNCHANGED <<program, checked, pc, left_mark, right_mark, loop_stack,
                   loop_balances, entered, before_loop, cursor, proved, pushed, restored>>

TapeUpPosOffset ==
    /\ fuel > 0
    /\ fuel' = fuel - 1
    /\ \E offset \in 0..MaxCap, value \in TapeBytes :
          LET r == up_pos_offset(Tape, offset, value)
          IN  /\ TapeBecomes(r.self)
              /\ ret' = TapeCall("up_pos_offset", offset, value, r.ok)
    /\ UNCHANGED <<program, checked, pc, left_mark, right_mark, loop_stack,
                   loop_balances, entered, before_loop, cursor, proved, pushed, restored>>

TapeUpNegOffset ==
    /\ fuel > 0
    /\ fuel' = fuel - 1
    /\ \E offset \in 0..MaxCap, value \in TapeBytes :
          LET r == up_neg_offset(Tape, offset, value)
          IN  /\ TapeBecomes(r.self)
              /\ ret' = TapeCall("up_neg_offset", offset, value, r.ok)
    /\ UNCHANGED <<program, checked, pc, left_mark, right_mark, loop_stack,
                   loop_balances, entered, before_loop, cursor, proved, pushed, restored>>

NextTape ==
    \/ TapeLeft
    \/ TapeRight
    \/ TapeUp
    \/ TapeDown
    \/ TapeStore
    \/ TapeUpPosOffset
    \/ TapeUpNegOffset

SpecTape == InitTape /\ [][NextTape]_vars

\* C16: right(count) returns Ok exactly when pointer + count < N and left(count)
\* exactly when pointer >= count, N being the capacity; the pointer is a cell of
\* memory in every state reached by calls of left, right, up, down, store,
\* up_pos_offset and up_neg_offset.
C16_TapeBounds ==
    /\ [](pointer \in 0..(Len(memory) - 1))
    /\ [][ /\ ret'.op = "right" =>
                 (ret'.result <=> pointer + ret'.count < Len(memory))
           /\ ret'.op = "left" =>
                 (ret'.result <=> pointer >= ret'.count)
           /\ (ret'.op \in {"left", "right"} /\ ret'.result) =>
                 pointer' = IF ret'.op = "right" THEN pointer + ret'.count
                            ELSE pointer - ret'.count ]_vars

\* A right of a positive count has moved the pointer onto the last cell of the
\* largest memory.
C16_Witness ==
    /\ ret.op = "right"
    /\ ret.count > 0
    /\ ret.result
    /\ Len(memory) = MaxCap
    /\ pointer = Len(memory) - 1

\* C17: a call of left, right, up_pos_offset or up_neg_offset that returns Err
\* leaves the pointer and every cell of memory as they were.
C17_ErrChangesNothing ==
    [][ (ret'.op \in {"left", "right", "up_pos_offset", "up_neg_offset"}
           /\ ~ret'.result) =>
            /\ pointer' = pointer
            /\ memory' = memory ]_vars

\* A left returned PointerUnderflow away from cell 0, on a memory that holds a
\* byte other than 0.
C17_Witness ==
    /\ ret.op = "left"
    /\ ~ret.result
    /\ pointer > 0
    /\ \E i \in DOMAIN memory : memory[i] # 0

\* C18: a left(count) right after a right(count) that returned Ok returns Ok and
\* leaves the State the right was called on; left and right change no cell; up,
\* down and store change no cell but the one under the pointer, and not the
\* pointer.
C18_RoundTripAndFrame ==
    [][ /\ (ret.op = "right" /\ ret.result /\ ret'.op = "left"
               /\ ret'.count = ret.count) =>
              /\ ret'.result
              /\ [memory |-> memory', pointer |-> pointer'] = ret.before
        /\ ret'.op \in {"left", "right"} => memory' = memory
        /\ ret'.op \in {"up", "down", "store"} =>
              /\ pointer' = pointer
              /\ Len(memory') = Len(memory)
              /\ \A i \in DOMAIN memory \ {pointer + 1} : memory'[i] = memory[i] ]_vars

\* A left(2) has undone a right(2) made away from cell 0 on a memory that holds
\* a byte other than 0.
C18_Witness ==
    /\ ret.op = "left"
    /\ ret.count = 2
    /\ ret.result
    /\ ret.before.pointer = 3
    /\ pointer = 1
    /\ \E i \in DOMAIN memory : memory[i] # 0

(***************************************************************************)
(* SpecCell: one cell.  It is set to any byte, raised or lowered by any    *)
(* count, and then moved back by the same count.                           *)
(***************************************************************************)
InitCell ==
    /\ program = <<>>
    /\ checked = TRUE
    /\ pc = "ready"
    /\ left_mark = 0
    /\ right_mark = 0
    /\ loop_stack = <<>>
    /\ loop_balances = EmptyMap
    /\ ret = NoCall
    /\ entered = <<>>
    /\ before_loop = <<>>
    /\ memory = with_capacity(1).memory
    /\ pointer = with_capacity(1).pointer
    /\ cursor = <<>>
    /\ proved = EmptyMap
    /\ pushed = EmptyMap
    /\ restored = EmptyMap
    /\ fuel = 2

CellStore ==
    /\ ret.op = "none"
    /\ \E value \in U8 :
          /\ TapeBecomes(store(Tape, value))
          /\ ret' = TapeCall("store", 0, value, TRUE)
    /\ UNCHANGED <<program, checked, pc, left_mark, right_mark, loop_stack,
                   loop_balances, entered, before_loop, walkvars>>

\* up(count): any count on the byte just stored, the same count after a down.
CellUp ==
    /\ fuel > 0
    /\ fuel' = fuel - 1
    /\ \E count \in U8 :
          /\ ret.op = "store" \/ (ret.op = "down" /\ count = ret.count)
          /\ TapeBecomes(up(Tape, count))
          /\ ret' = TapeCall("up", count, 0, TRUE)
    /\ UNCHANGED <<program, checked, pc, left_mark, right_mark, loop_stack,
                   loop_balances, entered, before_loop, cursor, proved, pushed, restored>>

\* down(count): any count on the byte just stored, the same count after an up.
CellDown ==
    /\ fuel > 0
    /\ fuel' = fuel - 1
    /\ \E count \in U8 :
          /\ ret.op = "store" \/ (ret.op = "up" /\ count = ret.count)
          /\ TapeBecomes(down(Tape, count))
          /\ ret' = TapeCall("down", count, 0, TRUE)
    /\ UNCHANGED <<program, checked, pc, left_mark, right_mark, loop_stack,
                   loop_balances, entered, before_loop, cursor, proved, pushed, restored>>

NextCell ==
    \/ CellStore
    \/ CellUp
    \/ CellDown

SpecCell == InitCell /\ [][NextCell]_vars

\* C19: on a cell holding v, up(c) stores (v + c) mod 256 and down(c) stores
\* (v - c) mod 256, for every byte v and every count c; a down(c) right after
\* an up(c) leaves the cell as it was before the up; neither call fails, and
\* every cell is a byte.
C19_WrapsModulo256 ==
    /\ [](memory[1] \in 0..255 /\ pc = "ready")
    /\ [][ /\ ret'.op = "up" =>
                 \E k \in {0, 1} : memory'[1] = memory[1] + ret'.count - 256 * k
           /\ ret'.op = "down" =>
                 \E k \in {0, 1} : memory'[1] = memory[1] - ret'.count + 256 * k
           /\ (ret.op = "up" /\ ret'.op = "down" /\ ret'.count = ret.count) =>
                 memory' = ret.before.memory ]_vars

\* down(1) on a cell holding 0 has stored 255.
C19_Witness ==
    /\ ret.op = "down"
    /\ ret.count = 1
    /\ ret.before.memory = <<0>>
    /\ memory = <<255>>

(***************************************************************************)
(* SpecLeaf: the summarization pass over one loop whose body is any        *)
(* sequence of at most MaxBody instructions, of every kind but the jumps.  *)
(***************************************************************************)
LeafInstrs ==
    {Instr(op, count) : op \in {"Right", "Left"}, count \in {1, MaxCount}} \cup
    {Instr(op, 1) : op \in {"Add", "OffsetAddRight", "OffsetAddLeft",
                             "FindZeroRight", "FindZeroLeft"}} \cup
    {Instr(op, 0) : op \in {"In", "Out", "SetZero"}}

LeafBodies == UNION {[1..n -> LeafInstrs] : n \in 0..MaxBody}

InitLeaf ==
    /\ program \in {<<Loop(body)>> : body \in LeafBodies}
    /\ checked = TRUE
    /\ pc = "new"
    /\ left_mark = 0
    /\ right_mark = 0
    /\ loop_stack = <<>>
    /\ loop_balances = EmptyMap
    /\ ret = NoCall
    /\ entered = <<>>
    /\ before_loop = <<>>
    /\ memory = <<>>
    /\ pointer = 0
    /\ NoWalk

SpecLeaf == InitLeaf /\ [][NextAnalyze]_vars

\* The rule C20 states for one instruction, applied to the accumulator acc.
C20_Rule(acc, instr) ==
    CASE instr.op = "Right" ->
             IF acc.tag = "Exact" THEN Exact(acc.disp + instr.count)
             ELSE IF acc = RightOnly THEN RightOnly ELSE Unknown
      [] instr.op = "Left" ->
             IF acc.tag = "Exact" THEN Exact(acc.disp - instr.count)
             ELSE IF acc = LeftOnly THEN LeftOnly ELSE Unknown
      [] instr.op = "FindZeroRight" ->
             IF (acc.tag = "Exact" /\ acc.disp >= 0) \/ acc = RightOnly
             THEN RightOnly ELSE Unknown
      [] instr.op = "FindZeroLeft" ->
             IF (acc.tag = "Exact" /\ acc.disp <= 0) \/ acc = LeftOnly
             THEN LeftOnly ELSE Unknown
      [] instr.op \in {"Add", "In", "Out", "SetZero", "OffsetAddRight",
                       "OffsetAddLeft"} -> acc

RECURSIVE C20_Fold(_, _)

\* The rules applied to the first n instructions of body, from Exact(0).
C20_Fold(body, n) ==
    IF n = 0 THEN Exact(0) ELSE C20_Rule(C20_Fold(body, n - 1), body[n])

RECURSIVE C20_Sum(_, _)

\* The right counts less the left counts of the first n instructions of body.
C20_Sum(body, n) ==
    IF n = 0 THEN 0
    ELSE C20_Sum(body, n - 1)
             + (IF body[n].op = "Right" THEN body[n].count
                ELSE IF body[n].op = "Left" THEN 0 - body[n].count ELSE 0)

\* C20: the summary the pass records for a loop is what the leaf rules yield,
\* instruction by instruction from Exact(0): Right and Left shift an Exact and
\* keep the one-sided class of their own direction, the scans yield the
\* one-sided class of their direction from an accumulator that allows it, the
\* other instructions change nothing, everything else is Unknown; a body
\* without scans summarizes to Exact(right counts - left counts).
C20_LeafRules ==
    pc = "analyzed" =>
        LET body == program[1].body
            summary == loop_balances[from_loop_body(<<1>>, body)]
        IN  /\ summary = C20_Fold(body, Len(body))
            /\ (\A i \in DOMAIN body : body[i].op \notin {"FindZeroRight", "FindZeroLeft"})
                   => summary = Exact(C20_Sum(body, Len(body)))

\* The pass summarized a body that moves left of its start, scans to the left
\* and then adds at an offset: LeftOnly.
C20_Witness ==
    /\ pc = "analyzed"
    /\ Len(program[1].body) = 3
    /\ program[1].body[1] = Instr("Left", MaxCount)
    /\ program[1].body[2].op = "FindZeroLeft"
    /\ program[1].body[3].op = "OffsetAddRight"
    /\ loop_balances[<<1>>] = LeftOnly

(***************************************************************************)
(* SpecNest: the summarization pass over one loop whose body is a run of   *)
(* moves and scans followed by a nested loop of moves and scans, so that   *)
(* every class of accumulator meets every class of nested summary.         *)
(***************************************************************************)
NestInstrs == {Right1, Left1, Instr("FindZeroRight", 1), Instr("FindZeroLeft", 1)}

NestBodies == UNION {[1..n -> NestInstrs] : n \in 0..MaxNest}

InitNest ==
    /\ program \in {<<Loop(Append(before, Loop(nested)))>> :
                        before \in NestBodies, nested \in NestBodies}
    /\ checked = TRUE
    /\ pc = "new"
    /\ left_mark = 0
    /\ right_mark = 0
    /\ loop_stack = <<>>
    /\ loop_balances = EmptyMap
    /\ ret = NoCall
    /\ entered = <<>>
    /\ before_loop = <<>>
    /\ memory = <<>>
    /\ pointer = 0
    /\ NoWalk

SpecNest == InitNest /\ [][NextAnalyze]_vars

\* Right-only and left-only as C21 spells them out.
C21_RightOnly(b) == (b.tag = "Exact" /\ b.disp >= 0) \/ b = RightOnly

C21_LeftOnly(b) == (b.tag = "Exact" /\ b.disp <= 0) \/ b = LeftOnly

\* The combination rule of C21 for the accumulator acc and the nested summary b.
C21_Combine(acc, b) ==
    IF acc.tag = "Exact" /\ b = Exact(0) THEN acc
    ELSE IF C21_RightOnly(acc) /\ C21_RightOnly(b) THEN RightOnly
    ELSE IF C21_LeftOnly(acc) /\ C21_LeftOnly(b) THEN LeftOnly
    ELSE Unknown

\* C21: the summary of a loop that ends in a nested loop is the accumulator
\* before the nested loop combined with the summary recorded for the nested
\* loop: an Exact accumulator stays as it is over a balanced nested loop, else
\* two right-only ones give RightOnly, else two left-only ones LeftOnly, else
\* Unknown; Exact(0) with LeftOnly gives LeftOnly, RightOnly with Exact(0)
\* gives RightOnly.
C21_NestedLoopRule ==
    pc = "analyzed" =>
        LET body == program[1].body
            before == SubSeq(body, 1, Len(body) - 1)
            nested == body[Len(body)].body
            acc == analyze(before, <<0>>, EmptyMap).net
            b == loop_balances[from_loop_body(<<1, Len(body)>>, nested)]
        IN  /\ loop_balances[<<1>>] = C21_Combine(acc, b)
            /\ (acc = Exact(0) /\ b = LeftOnly) => loop_balances[<<1>>] = LeftOnly
            /\ (acc = RightOnly /\ b = Exact(0)) => loop_balances[<<1>>] = RightOnly

\* The pass combined an accumulator of Exact(-1) with a balanced nested loop of
\* two moves and recorded Exact(-1) for the outer loop.
C21_Witness ==
    /\ pc = "analyzed"
    /\ program[1].body[1] = Left1
    /\ Len(program[1].body) = 2
    /\ Len(program[1].body[2].body) = 2
    /\ loop_balances[<<1, 2>>] = Exact(0)
    /\ loop_balances[<<1>>] = Exact(0 - 1)

(***************************************************************************)
(* SpecPass: new summarizes a program of one loop; the body of that loop   *)
(* is then executed once, from any cell of a tape, nested loops running    *)
(* any number of iterations and scans stopping at any cell they can reach  *)
(* (the cell values that decide both are left open).  A move or a scan     *)
(* that leaves memory ends the run (pc = "failed").                        *)
(***************************************************************************)
PassLeaves ==
    {Right1, Instr("Right", MaxCount), Left1, Instr("Add", 1),
     Instr("FindZeroRight", 1), Instr("FindZeroLeft", MaxCount)}

InitPass ==
    /\ program \in {<<Loop(body)>> : body \in Programs(PassLeaves, MaxPassNodes)}
    /\ checked = TRUE
    /\ pc = "new"
    /\ left_mark = 0
    /\ right_mark = 0
    /\ loop_stack = <<>>
    /\ loop_balances = EmptyMap
    /\ ret = NoCall
    /\ entered = <<>>
    /\ before_loop = <<>>
    /\ memory = with_capacity(MaxCap).memory
    /\ pointer \in 0..(MaxCap - 1)
    /\ NoWalk

\* The pass through the body of the loop starts; ret keeps the State it starts on.
PassBegin ==
    /\ pc = "ready"
    /\ pc' = "run"
    /\ cursor' = <<1, 1>>
    /\ fuel' = MaxIter
    /\ ret' = TapeCall("pass", 0, 0, TRUE)
    /\ UNCHANGED <<program, checked, left_mark, right_mark, loop_stack,
                   loop_balances, entered, before_loop, memory, pointer, proved, pushed, restored>>

\* Right(count) / Left(count): the checked move of State.
PassMove ==
    /\ pc = "run"
    /\ ~AtEnd(cursor)
    /\ Current(cursor).op \in {"Right", "Left"}
    /\ LET instr == Current(cursor)
           moved == IF instr.op = "Right" THEN right(Tape, instr.count)
                    ELSE left(Tape, instr.count)
       IN  /\ pointer' = moved.self.pointer
           /\ pc' = IF moved.ok THEN "run" ELSE "failed"
    /\ cursor' = Advance(cursor)
    /\ UNCHANGED <<program, checked, left_mark, right_mark, loop_stack,
                   loop_balances, ret, entered, before_loop, memory, proved, pushed, restored, fuel>>

\* FindZeroRight(count) / FindZeroLeft(count): checked moves of `count` cells,
\* repeated until the cell under the pointer is zero.
PassScan ==
    /\ pc = "run"
    /\ ~AtEnd(cursor)
    /\ Current(cursor).op \in {"FindZeroRight", "FindZeroLeft"}
    /\ \E steps \in 0..MaxCap :
          LET instr == Current(cursor)
              moved == IF instr.op = "FindZeroRight"
                       THEN right(Tape, steps * instr.count)
                       ELSE left(Tape, steps * instr.count)
          IN  /\ pointer' = moved.self.pointer
              /\ pc' = IF moved.ok THEN "run" ELSE "failed"
    /\ cursor' = Advance(cursor)
    /\ UNCHANGED <<program, checked, left_mark, right_mark, loop_stack,
                   loop_balances, ret, entered, before_loop, memory, proved, pushed, restored, fuel>>

\* An instruction that does not move the pointer.
PassOther ==
    /\ pc = "run"
    /\ ~AtEnd(cursor)
    /\ Current(cursor).kind = "Instr"
    /\ Current(cursor).op \notin {"Right", "Left", "FindZeroRight", "FindZeroLeft"}
    /\ cursor' = Advance(cursor)
    /\ UNCHANGED <<program, checked, pc, left_mark, right_mark, loop_stack,
                   loop_balances, ret, entered, before_loop, memory, pointer, proved, pushed,
                   restored, fuel>>

\* The end of the body of a nested loop, cell not zero: the next iteration.
PassRepeat ==
    /\ pc = "run"
    /\ Len(cursor) > 2
    /\ AtEnd(cursor)
    /\ fuel > 0
    /\ fuel' = fuel - 1
    /\ cursor' = Append(Parent(cursor), 1)
    /\ UNCHANGED <<program, checked, pc, left_mark, right_mark, loop_stack,
                   loop_balances, ret, entered, before_loop, memory, pointer, proved, pushed,
                   restored>>

\* The end of the body of a nested loop, cell zero: the nested loop is left.
PassLeave ==
    /\ pc = "run"
    /\ Len(cursor) > 2
    /\ AtEnd(cursor)
    /\ cursor' = Advance(Parent(cursor))
    /\ UNCHANGED <<program, checked, pc, left_mark, right_mark, loop_stack,
                   loop_balances, ret, entered, before_loop, memory, pointer, proved, pushed,
                   restored, fuel>>

\* The end of the body of the loop: one pass through it is complete.
PassEnd ==
    /\ pc = "run"
    /\ Len(cursor) = 2
    /\ AtEnd(cursor)
    /\ pc' = "passed"
    /\ UNCHANGED <<program, checked, left_mark, right_mark, loop_stack,
                   loop_balances, ret, entered, before_loop, memory, pointer, cursor, proved,
                   pushed, restored, fuel>>

NextPass ==
    \/ New
    \/ PassBegin
    \/ PassMove
    \/ PassScan
    \/ PassOther
    \/ RunIterate
    \/ RunExit
    \/ PassRepeat
    \/ PassLeave
    \/ PassEnd

SpecPass == InitPass /\ [][NextPass]_vars

\* C22: after one complete pass through the body of a loop, made from any cell
\* with every move and scan staying in memory, the pointer is d cells right of
\* where the pass started if the loop's summary is Exact(d), at or right of it
\* if the summary is RightOnly, at or left of it if the summary is LeftOnly.
C22_SummarySound ==
    pc = "passed" =>
        LET summary == loop_balances[from_loop_body(<<1>>, program[1].body)]
            start == ret.before.pointer
        IN  /\ summary.tag = "Exact" => pointer = start + summary.disp
            /\ summary = RightOnly => pointer >= start
            /\ summary = LeftOnly => pointer <= start

\* A pass whose nested loop ran more than one iteration has ended right of its
\* start, in a loop summarized as RightOnly.
C22_Witness ==
    /\ pc = "passed"
    /\ <<1>> \in DOMAIN loop_balances
    /\ loop_balances[<<1>>] = RightOnly
    /\ \E i \in DOMAIN program[1].body : program[1].body[i].kind = "Loop"
    /\ fuel <= MaxIter - 2
    /\ pointer > ret.before.pointer + 1

(***************************************************************************)
(* Claims about the accumulator of analyze along a body (SpecAnalyze).     *)
(***************************************************************************)
\* The accumulator of analyze after the first k statements of the body of the
\* loop at `path`.
C23_Acc(path, k) ==
    analyze(SubSeq(BodyAt(program, path), 1, k), path, EmptyMap).net

\* C23: along the body of every loop the accumulator never gains precision:
\* after Unknown comes Unknown, after RightOnly only RightOnly or Unknown,
\* after LeftOnly only LeftOnly or Unknown; so a loop recorded as Exact has no
\* scan and no nested loop recorded other than Exact(0) directly in its body.
C23_PrecisionOnlyLost ==
    (pc = "analyzed" /\ ~HasJump(program)) =>
        \A path \in LoopPaths(program, <<>>) :
            LET body == BodyAt(program, path)
            IN  /\ loop_balances[from_loop_body(path, body)] = C23_Acc(path, Len(body))
                /\ \A k \in 1..Len(body) :
                       LET acc == C23_Acc(path, k - 1)
                           next == C23_Acc(path, k)
                       IN  /\ acc = Unknown => next = Unknown
                           /\ acc = RightOnly => next \in {RightOnly, Unknown}
                           /\ acc = LeftOnly => next \in {LeftOnly, Unknown}
                /\ C23_Acc(path, Len(body)).tag = "Exact" =>
                       \A k \in 1..Len(body) :
                           /\ body[k].op \notin {"FindZeroRight", "FindZeroLeft"}
                           /\ body[k].kind = "Loop" =>
                                  loop_balances[from_loop_body(Append(path, k), body[k].body)]
                                      = Exact(0)

\* The pass walked a body whose accumulator went from Exact to RightOnly, from
\* there to Unknown, and met a move to the right after that.
C23_Witness ==
    /\ pc = "analyzed"
    /\ <<1>> \in DOMAIN loop_balances
    /\ Len(program[1].body) = 3
    /\ C23_Acc(<<1>>, 1) = RightOnly
    /\ C23_Acc(<<1>>, 2) = Unknown
    /\ program[1].body[3] = Right1
    /\ loop_balances[<<1>>] = Unknown

(***************************************************************************)
(* SpecLoop: Spec with one more history, the marks each unmatched          *)
(* enter_loop was called with.                                             *)
(***************************************************************************)
\* enter_loop(body), as in EnterLoop; the marks it is called with are noted.
LoopEnter ==
    /\ pc = "ready"
    /\ Len(loop_stack) < MaxDepth
    /\ \E index \in DOMAIN loop_balances \cup {DanglingIndex, ForeignIndex} :
          /\ Becomes(enter_loop(Self, index))
          /\ ret' = Call("enter_loop", 0, index, FALSE)
    /\ entered' = Append(entered, <<left_mark', right_mark'>>)
    /\ before_loop' = Append(before_loop, <<left_mark, right_mark>>)
    /\ UNCHANGED <<program, checked, pc, memory, pointer, walkvars>>

\* leave_loop(), as in LeaveLoop; the note of the matching enter_loop is dropped.
LoopLeave ==
    /\ pc = "ready"
    /\ LET r == leave_loop(Self)
       IN  /\ Becomes(r.self)
           /\ pc' = IF r.panicked THEN "panicked" ELSE "ready"
    /\ ret' = Call("leave_loop", 0, <<>>, FALSE)
    /\ entered' = IF entered = <<>> THEN entered ELSE SubSeq(entered, 1, Len(entered) - 1)
    /\ before_loop' = IF before_loop = <<>> THEN before_loop
                      ELSE SubSeq(before_loop, 1, Len(before_loop) - 1)
    /\ UNCHANGED <<program, checked, memory, pointer, walkvars>>

NextLoop ==
    \/ New
    \/ MoveLeft
    \/ MoveRight
    \/ ResetLeft
    \/ ResetRight
    \/ LoopEnter
    \/ LoopLeave

SpecLoop == Init /\ [][NextLoop]_vars

\* C24: right after a leave_loop each mark is the value it had right before
\* the matching enter_loop or 0, whatever the loop and whatever was called in
\* between, so neither mark is larger after a loop than before it.
C24_LoopNeverStrengthens ==
    [][ (ret'.op = "leave_loop" /\ pc' = "ready") =>
            LET outside == before_loop[Len(before_loop)]
            IN  /\ left_mark' \in {outside[1], 0}
                /\ right_mark' \in {outside[2], 0}
                /\ left_mark' <= outside[1]
                /\ right_mark' <= outside[2] ]_vars

\* A leave_loop has brought back a positive left mark and a right mark of 0
\* after calls inside the loop had left other marks.
C24_Witness ==
    /\ ret.op = "leave_loop"
    /\ pc = "ready"
    /\ left_mark > 0
    /\ right_mark = 0
    /\ ret.before[1] > left_mark
    /\ ret.before[2] > 0

====
